---- MODULE Spec2Model ----
(***************************************************************************)
(* Model of protein.ipynb: the pipeline of main (parse_pdb, generate_views, *)
(* train_model, reconstruct_structure, visualize_structure, save_pdb) and   *)
(* the text formats of parse_pdb and save_pdb.                              *)
(*                                                                          *)
(* Text is modelled character by character with TLC's strings (Len, SubSeq  *)
(* and \o work on them).  A coordinate is a fixed-point number: an integer  *)
(* count of 1/10000ths, so that the rounding of ":7.3f" to 1/1000ths is     *)
(* visible.  An array is a record [ndim, rows]: numpy gives np.array([])    *)
(* the shape (0,), one dimension, and an N x 3 list two dimensions.         *)
(***************************************************************************)
EXTENDS Integers, Sequences, FiniteSets, TLC

VARIABLES
    pc,                     \* the statement of main (or of the round trip) to run next
    error,                  \* the exception that ended the run, "none" while it runs
    calls,                  \* the functions called so far, in call order (history)
    done,                   \* the statements that ran to their end, in order (history)
    records,                \* what each line of the input file is (history)
    inputFile,              \* the text of the input file
    readable,               \* whether open(input_pdb_path, 'r') succeeds
    writable,               \* whether open(output_pdb_path, 'w') succeeds
    original_coordinates,   \* main: original_coordinates
    view1, view2, view3,    \* main: view1, view2, view3
    perm,                   \* the outcome of np.random.permutation: view2 row i is original row perm[i] (history)
    input_data,             \* main: input_data
    output_data,            \* main: output_data
    model,                  \* main: model, scaler (the fitted pair as one function of a row)
    reconstructed_views,    \* main: reconstructed_views
    plot,                   \* the figure shown by visualize_structure
    save_arg,               \* the coordinates handed to save_pdb
    outFile                 \* the output file: whether it exists, and its text

vars == <<pc, error, calls, done, records, inputFile, readable, writable,
          original_coordinates, view1, view2, view3, perm, input_data,
          output_data, model, reconstructed_views, plot, save_arg, outFile>>

(* ------------------------------------------------------------------ *)
(* Bounds and sample inputs                                            *)
(* ------------------------------------------------------------------ *)

\* The longest input file, in lines.
MaxLines == 2

\* The largest coordinate set handed to save_pdb in the round trip, in rows.
MaxRows == 2

\* ":7.3f" keeps 1/1000ths.
Milli == 1000

\* One unit of a coordinate is 1/Scale: one decimal more than the format keeps.
Scale == 10 * Milli

Min(a, b) == IF a < b THEN a ELSE b

Range(s) == {s[i] : i \in DOMAIN s}

\* All sequences over S of length at most n.
SeqsUpTo(S, n) == UNION {[1..k -> S] : k \in 0..n}

(* ------------------------------------------------------------------ *)
(* Python text operations                                              *)
(* ------------------------------------------------------------------ *)

\* s[lo:hi] of Python: 0-based, hi exclusive, clipped to the string.
Slice(s, lo, hi) ==
    IF lo >= Min(hi, Len(s)) THEN "" ELSE SubSeq(s, lo + 1, Min(hi, Len(s)))

\* s.startswith(prefix)
startswith(s, prefix) == Slice(s, 0, Len(prefix)) = prefix

Char(s, i) == SubSeq(s, i, i)

IsSpace(c) == c \in {" ", "\n", "\t", "\r"}

Digits == <<"0", "1", "2", "3", "4", "5", "6", "7", "8", "9">>

IsDigit(c) == \E d \in 1..10 : Digits[d] = c

DigitVal(c) == (CHOOSE d \in 1..10 : Digits[d] = c) - 1

\* Recursive definitions are functions: their arguments are values.
Spaces[n \in Int] == IF n <= 0 THEN "" ELSE " " \o Spaces[n - 1]

Zeros[n \in Int] == IF n <= 0 THEN "" ELSE "0" \o Zeros[n - 1]

\* Right-justify in a field of at least w characters; a longer text is kept whole.
PadLeft(s, w) == Spaces[w - Len(s)] \o s

\* f"{n:w}" for an integer n >= 0.
FormatInt(n, w) == PadLeft(ToString(n), w)

\* |v| in 1/1000ths, rounded from 1/10000ths as the exact decimal value rounds:
\* to the nearest, a tie to the even neighbour.
Round3(a) ==
    LET q == a \div (Scale \div Milli)
        r == a % (Scale \div Milli)
        half == (Scale \div Milli) \div 2
    IN  IF r < half THEN q
        ELSE IF r > half THEN q + 1
        ELSE IF q % 2 = 0 THEN q ELSE q + 1

\* f"{v:w.3f}": sign, integer part, ".", three decimals, right-justified in at
\* least w characters.  A value that needs more than w characters widens the field.
FormatFixed3(v, w) ==
    LET a == IF v < 0 THEN -v ELSE v
        m == Round3(a)
        frac == ToString(m % Milli)
        body == ToString(m \div Milli) \o "." \o Zeros[3 - Len(frac)] \o frac
    IN  PadLeft((IF v < 0 THEN "-" ELSE "") \o body, w)

\* s.strip() at the left and at the right.
LStrip[s \in STRING] ==
    IF Len(s) > 0 /\ IsSpace(Char(s, 1)) THEN LStrip[SubSeq(s, 2, Len(s))] ELSE s

RStrip[s \in STRING] ==
    IF Len(s) > 0 /\ IsSpace(Char(s, Len(s))) THEN RStrip[SubSeq(s, 1, Len(s) - 1)] ELSE s

\* The number of leading decimal digits of s.
DigitRun[s \in STRING] ==
    IF Len(s) > 0 /\ IsDigit(Char(s, 1)) THEN 1 + DigitRun[SubSeq(s, 2, Len(s))] ELSE 0

\* The value of a string of decimal digits ("" is 0).
DigitsVal[s \in STRING] ==
    IF Len(s) = 0 THEN 0
    ELSE 10 * DigitsVal[SubSeq(s, 1, Len(s) - 1)] + DigitVal(Char(s, Len(s)))

\* The value of an unsigned decimal text u: digits with an optional "." and
\* more digits, at least one digit in all.  The value is in 1/Scale units;
\* decimals past the fourth are below the resolution of the model and dropped.
Unsigned[u \in STRING] ==
    LET ni == DigitRun[u]
    IN  LET rest == SubSeq(u, ni + 1, Len(u))
        IN  LET dotted == Len(rest) > 0 /\ Char(rest, 1) = "."
            IN  LET fr == IF dotted THEN SubSeq(rest, 2, Len(rest)) ELSE rest
                IN  [ok |-> /\ DigitRun[fr] = Len(fr)
                            /\ (dotted \/ Len(rest) = 0)
                            /\ ni + Len(fr) > 0,
                     val |-> DigitsVal[SubSeq(u, 1, ni)] * Scale
                                + DigitsVal[SubSeq(fr \o "0000", 1, DigitRun[SubSeq(fr \o "0000", 1, 4)])]]

\* The value of a decimal text t without blanks around it: an optional sign,
\* then an unsigned decimal text.
Signed[t \in STRING] ==
    IF Len(t) > 0 /\ Char(t, 1) \in {"-", "+"}
    THEN [ok |-> Unsigned[SubSeq(t, 2, Len(t))].ok,
          val |-> IF Char(t, 1) = "-"
                  THEN -Unsigned[SubSeq(t, 2, Len(t))].val
                  ELSE Unsigned[SubSeq(t, 2, Len(t))].val]
    ELSE Unsigned[t]

\* float(s) for the decimal texts a PDB column can hold: optional blanks, an
\* optional sign, digits with an optional "." and more digits, optional blanks.
\* Anything else (an empty field, a blank inside, a second ".") is a ValueError:
\* ok is FALSE.
float(s) ==
    [ok |-> Signed[RStrip[LStrip[s]]].ok,
     val |-> IF Signed[RStrip[LStrip[s]]].ok THEN Signed[RStrip[LStrip[s]]].val ELSE 0]

\* The position of the first "\n" of s, 0 when there is none.
FirstNewline[s \in STRING, i \in Nat] ==
    IF i > Len(s) THEN 0
    ELSE IF Char(s, i) = "\n" THEN i
    ELSE FirstNewline[s, i + 1]

\* for line in file: the lines of the text, each with its "\n"; a last line
\* without one is a line too.
Lines[data \in STRING] ==
    IF Len(data) = 0 THEN <<>>
    ELSE IF FirstNewline[data, 1] = 0 THEN <<data>>
    ELSE <<SubSeq(data, 1, FirstNewline[data, 1])>>
            \o Lines[SubSeq(data, FirstNewline[data, 1] + 1, Len(data))]

(* ------------------------------------------------------------------ *)
(* Arrays                                                              *)
(* ------------------------------------------------------------------ *)

\* np.array(list of [x, y, z]): an empty list gives a one-dimensional array.
np_array(rows) == [ndim |-> IF Len(rows) = 0 THEN 1 ELSE 2, rows |-> rows]

\* A two-dimensional array of shape (N, 3), N = 0 included.
Array2(rows) == [ndim |-> 2, rows |-> rows]

EmptyArray == [ndim |-> 1, rows |-> <<>>]

(* ------------------------------------------------------------------ *)
(* parse_pdb                                                           *)
(* ------------------------------------------------------------------ *)

\* The body of the loop for one line: nothing for a line that does not start
\* with 'ATOM', else the three floats of columns 31-38, 39-46, 47-54.
\* 'ATOM' in line: the marker anywhere in the line.
IsAtomLineAnywhere(line) == \E i \in 0..Len(line) : Slice(line, i, i + 4) = "ATOM"

\* The test of the loop: line.startswith('ATOM').
IsAtomLine(line) == startswith(line, "ATOM")

\* The three slices of an atom line: line[30:38], line[38:46], line[46:54].
CoordinateFields(line) == <<Slice(line, 30, 38), Slice(line, 38, 46), Slice(line, 46, 54)>>

ParseLine[line \in STRING] ==
    IF ~IsAtomLine(line) THEN [ok |-> TRUE, rows |-> <<>>]
    ELSE LET x == float(CoordinateFields(line)[1])
             y == float(CoordinateFields(line)[2])
             z == float(CoordinateFields(line)[3])
         IN  IF x.ok /\ y.ok /\ z.ok
             THEN [ok |-> TRUE, rows |-> <<(<<x.val, y.val, z.val>>)>>]
             ELSE [ok |-> FALSE, rows |-> <<>>]

\* The loop over the lines: the rows gathered so far are lost when a float()
\* raises.
ParseLines[lines \in Seq(STRING)] ==
    IF Len(lines) = 0 THEN [ok |-> TRUE, rows |-> <<>>]
    ELSE IF ~ParseLine[Head(lines)].ok THEN [ok |-> FALSE, rows |-> <<>>]
    ELSE [ok |-> ParseLines[Tail(lines)].ok,
          rows |-> ParseLine[Head(lines)].rows \o ParseLines[Tail(lines)].rows]

\* parse_pdb on the text of a readable file: ok is FALSE when a float() raised.
parse_pdb(data) ==
    [ok |-> ParseLines[Lines[data]].ok,
     array |-> IF ParseLines[Lines[data]].ok
               THEN np_array(ParseLines[Lines[data]].rows)
               ELSE EmptyArray]

(* ------------------------------------------------------------------ *)
(* save_pdb                                                            *)
(* ------------------------------------------------------------------ *)

\* The line with the atoms numbered from 0: i in place of i+1.
SaveLineFromZero(i, coord) ==
    "ATOM  " \o FormatInt(i, 4) \o "  CA  ALA A   1     "
        \o FormatFixed3(coord[1], 7) \o " "
        \o FormatFixed3(coord[2], 7) \o " "
        \o FormatFixed3(coord[3], 7)
        \o "  1.00  0.00           C\n"

\* The line written for row i (0-based, as enumerate counts) with coordinates coord.
SaveLine(i, coord) ==
    "ATOM  " \o FormatInt(i + 1, 4) \o "  CA  ALA A   1     "
        \o FormatFixed3(coord[1], 7) \o " "
        \o FormatFixed3(coord[2], 7) \o " "
        \o FormatFixed3(coord[3], 7)
        \o "  1.00  0.00           C\n"

\* for i, coord in enumerate(coordinates): the lines from row i on.
SaveLines[rows \in Seq(Seq(Int)), i \in Nat] ==
    IF i >= Len(rows) THEN "" ELSE SaveLine(i, rows[i + 1]) \o SaveLines[rows, i + 1]

\* The text save_pdb writes for the array coordinates.
save_pdb(coordinates) == SaveLines[coordinates.rows, 0]

(* ------------------------------------------------------------------ *)
(* numpy operations used by generate_views and main                    *)
(* ------------------------------------------------------------------ *)

Reverse(s) == [i \in 1..Len(s) |-> s[Len(s) + 1 - i]]

\* The permutations of 1..n.
Perms(n) == {p \in [1..n -> 1..n] : \A i, j \in 1..n : p[i] = p[j] => i = j}

\* The rows of arr taken in the order idx: row i of the result is row idx[i] of arr.
TakeRows(arr, idx) == [ndim |-> arr.ndim, rows |-> [i \in 1..Len(idx) |-> arr.rows[idx[i]]]]

\* A draw with replacement instead of a shuffle (what np.random.choice of the
\* row indices would give): rows may repeat and rows may be lost.
PermutationOutcomesResampled(arr) ==
    {[perm |-> p, array |-> TakeRows(arr, p)] :
        p \in [1..Len(arr.rows) -> 1..Len(arr.rows)]}

\* np.random.permutation(arr): every outcome of the shuffle of a copy of arr
\* along its first axis, with the order it drew.
PermutationOutcomes(arr) ==
    {[perm |-> p, array |-> TakeRows(arr, p)] : p \in Perms(Len(arr.rows))}

\* A flip along both axes (np.flip without axis): the rows reversed and their
\* order reversed as well.
np_flip_all_axes(arr, axis) ==
    IF axis >= arr.ndim THEN [ok |-> FALSE, array |-> EmptyArray]
    ELSE [ok |-> TRUE,
          array |-> [ndim |-> arr.ndim,
                     rows |-> Reverse([i \in 1..Len(arr.rows) |-> Reverse(arr.rows[i])])]]

\* np.flip(arr, axis): an axis the array does not have is an AxisError; axis 0
\* reverses the order of the rows, axis 1 reverses every row.
np_flip(arr, axis) ==
    IF axis >= arr.ndim THEN [ok |-> FALSE, array |-> EmptyArray]
    ELSE IF axis = 0 THEN [ok |-> TRUE, array |-> [ndim |-> arr.ndim, rows |-> Reverse(arr.rows)]]
    ELSE [ok |-> TRUE,
          array |-> [ndim |-> arr.ndim,
                     rows |-> [i \in 1..Len(arr.rows) |-> Reverse(arr.rows[i])]]]

\* The arrays of the model.
Arrays == [ndim : Nat, rows : Seq(Seq(Int))]

ConcatRows[arrays \in Seq(Arrays)] ==
    IF Len(arrays) = 0 THEN <<>> ELSE Head(arrays).rows \o ConcatRows[Tail(arrays)]

\* np.vstack(arrays): the rows of the arrays, one array after the other.
np_vstack(arrays) == Array2(ConcatRows[arrays])

RepeatRows[rows \in Seq(Seq(Int)), reps \in Int] ==
    IF reps <= 0 THEN <<>> ELSE rows \o RepeatRows[rows, reps - 1]

\* One copy too few.
np_tile_short(arr, reps) == Array2(RepeatRows[arr.rows, reps - 1])

\* np.tile(arr, (reps, 1)): the rows of arr, reps times over.
np_tile(arr, reps) == Array2(RepeatRows[arr.rows, reps])

\* n / d to the nearest integer: the fixed-point image of a float division.
DivRound(n, d) == (2 * n + d) \div (2 * d)

\* np.mean(stack, axis=0): row for row and component for component, the mean
\* over the arrays of the stack.
np_mean(stack) ==
    LET n == Len(stack[1].rows)
        Sum(i, k) == stack[1].rows[i][k] + stack[2].rows[i][k] + stack[3].rows[i][k]
    IN  Array2([i \in 1..n |-> [k \in 1..3 |-> DivRound(Sum(i, k), Len(stack))]])

(* ------------------------------------------------------------------ *)
(* Input files                                                         *)
(* ------------------------------------------------------------------ *)

\* f"{v:8.3f}", the width of a coordinate column of a PDB file.
Column8(v) == FormatFixed3(v, 8)

\* The text of the line a record stands for.
InputLine(rec) ==
    LET xyz == Column8(rec.row[1]) \o Column8(rec.row[2]) \o Column8(rec.row[3])
        tail == "  1.00 50.00           N  \n"
    IN  CASE rec.kind = "atom" -> "ATOM      1  N   MET A   1    " \o xyz \o tail
          [] rec.kind = "hetatm" -> "HETATM    1  O   HOH A   2    " \o xyz \o tail
          [] rec.kind = "indented" -> " ATOM     1  N   MET A   1   " \o xyz \o tail
          [] rec.kind = "remark" -> "REMARK   1 ATOM RECORDS FOLLOW\n"
          [] rec.kind = "badnum" ->
                "ATOM      1  N   MET A   1    " \o Column8(rec.row[1]) \o "  1.2.3 "
                    \o Column8(rec.row[3]) \o tail
          [] rec.kind = "short" ->
                "ATOM      1  N   MET A   1    " \o Column8(rec.row[1]) \o "\n"

\* The lines an input file is made of: well-formed atom records (one with
\* x = z, one whose numbers fill their columns), records of other types, a line
\* that holds ATOM but does not start with it, and two malformed atom records.
SampleRecords ==
    {[kind |-> "atom", row |-> <<15000, -22500, 30000>>],
     [kind |-> "atom", row |-> <<40000, 1250, 40000>>],
     [kind |-> "atom", row |-> <<-1234560, 9999990, -10>>],
     [kind |-> "hetatm", row |-> <<90000, 90000, 90000>>],
     [kind |-> "indented", row |-> <<70000, 80000, 90000>>],
     [kind |-> "remark", row |-> <<0, 0, 0>>],
     [kind |-> "badnum", row |-> <<10000, 0, 20000>>],
     [kind |-> "short", row |-> <<10000, 0, 0>>]}

\* The text of the file whose lines are recs.
RenderFile[recs \in Seq(SampleRecords)] ==
    IF Len(recs) = 0 THEN "" ELSE InputLine(Head(recs)) \o RenderFile[Tail(recs)]

\* What the trained network may answer for a row.
PredRows == {<<10000, 20000, 30004>>, <<-1234567, 6, 40000>>}

\* The coordinate rows handed to save_pdb in the round trip: small values,
\* values that round up, a negative zero, and values of 8 and 9 characters.
SampleRows ==
    {<<0, 0, 0>>,
     <<12346, -56789, 999994>>,
     <<-1, 9999994, -999994>>,
     <<-1000000, 4, 10000>>,
     <<30000, 9999996, 20000>>,
     <<-1234567, -2000004, 30000>>,
     <<10000000, 123456789, -6>>}

(* ------------------------------------------------------------------ *)
(* main                                                                *)
(* ------------------------------------------------------------------ *)

\* The same statements with the file written before the figure is shown.
MainOrderSaveFirst ==
    <<"parse_pdb", "generate_views", "stack", "train_model",
      "reconstruct_structure", "save_pdb", "visualize_structure">>

\* The statements of main, in the order it runs them.
MainOrder ==
    <<"parse_pdb", "generate_views", "stack", "train_model",
      "reconstruct_structure", "visualize_structure", "save_pdb">>

\* The statement after stage, "done" after the last.
NextStage(stage) ==
    LET k == CHOOSE i \in 1..Len(MainOrder) : MainOrder[i] = stage
    IN  IF k = Len(MainOrder) THEN "done" ELSE MainOrder[k + 1]

NoModel == [fitted |-> FALSE, f |-> <<>>]
NoPlot == [shown |-> FALSE, points |-> <<>>, color |-> <<>>]
NoFile == [exists |-> FALSE, data |-> ""]

\* An exception leaves main: nothing after the failing statement runs.
Raise(name) == /\ error' = name
               /\ pc' = "failed"
               /\ UNCHANGED done

\* The statement stage ran to its end: main goes on with the next one.
Return(stage) == /\ pc' = NextStage(stage)
                 /\ done' = Append(done, stage)
                 /\ UNCHANGED error

Init ==
    /\ records \in SeqsUpTo(SampleRecords, MaxLines)
    /\ inputFile = RenderFile[records]
    /\ readable \in BOOLEAN
    /\ writable \in BOOLEAN
    /\ pc = MainOrder[1]
    /\ error = "none"
    /\ calls = <<>>
    /\ done = <<>>
    /\ original_coordinates = EmptyArray
    /\ view1 = EmptyArray
    /\ view2 = EmptyArray
    /\ view3 = EmptyArray
    /\ perm = <<>>
    /\ input_data = EmptyArray
    /\ output_data = EmptyArray
    /\ model = NoModel
    /\ reconstructed_views = <<>>
    /\ plot = NoPlot
    /\ save_arg = EmptyArray
    /\ outFile = NoFile

\* parse_pdb with its failure caught and reported, main going on with no rows.
ParsePdbSwallowing ==
    /\ pc = "parse_pdb"
    /\ calls' = Append(calls, "parse_pdb")
    /\ IF readable /\ parse_pdb(inputFile).ok
       THEN /\ original_coordinates' = parse_pdb(inputFile).array
            /\ Return("parse_pdb")
       ELSE /\ original_coordinates' = EmptyArray
            /\ error' = IF readable THEN "ValueError" ELSE "IOError"
            /\ pc' = NextStage("parse_pdb")
            /\ done' = Append(done, "parse_pdb")
    /\ UNCHANGED <<records, inputFile, readable, writable, view1, view2, view3, perm,
                   input_data, output_data, model, reconstructed_views, plot,
                   save_arg, outFile>>

\* original_coordinates = parse_pdb(input_pdb_path)
ParsePdb ==
    /\ pc = "parse_pdb"
    /\ calls' = Append(calls, "parse_pdb")
    /\ IF ~readable
       THEN Raise("IOError") /\ UNCHANGED original_coordinates
       ELSE LET r == parse_pdb(inputFile)
            IN  IF r.ok
                THEN /\ original_coordinates' = r.array
                     /\ Return("parse_pdb")
                ELSE Raise("ValueError") /\ UNCHANGED original_coordinates
    /\ UNCHANGED <<records, inputFile, readable, writable, view1, view2, view3, perm,
                   input_data, output_data, model, reconstructed_views, plot,
                   save_arg, outFile>>

\* view1, view2, view3 = generate_views(original_coordinates)
GenerateViews ==
    /\ pc = "generate_views"
    /\ calls' = Append(calls, "generate_views")
    /\ \E drawn \in PermutationOutcomes(original_coordinates) :
          LET flipped == np_flip(original_coordinates, 1)
          IN  IF flipped.ok
              THEN /\ view1' = original_coordinates
                   /\ view2' = drawn.array
                   /\ view3' = flipped.array
                   /\ perm' = drawn.perm
                   /\ Return("generate_views")
              ELSE /\ Raise("AxisError")
                   /\ UNCHANGED <<view1, view2, view3, perm>>
    /\ UNCHANGED <<records, inputFile, readable, writable, original_coordinates,
                   input_data, output_data, model, reconstructed_views, plot,
                   save_arg, outFile>>

\* input_data = np.vstack([view1, view2, view3])
\* output_data = np.tile(original_coordinates, (3, 1))
Stack ==
    /\ pc = "stack"
    /\ input_data' = np_vstack(<<view1, view2, view3>>)
    /\ output_data' = np_tile(original_coordinates, 3)
    /\ Return("stack")
    /\ UNCHANGED <<calls, records, inputFile, readable, writable,
                   original_coordinates, view1, view2, view3, perm, model,
                   reconstructed_views, plot, save_arg, outFile>>

\* model, scaler = train_model(input_data, output_data): the split, the scaler
\* and the network are fitted; what the fitted pair answers for a row is not
\* decided by the code but by the training, so it is any function of the row.
\* A numeric or library failure in the fit ends the run.
TrainModel ==
    /\ pc = "train_model"
    /\ calls' = Append(calls, "train_model")
    /\ \/ /\ Raise("TrainError")
          /\ UNCHANGED model
       \/ /\ \E f \in [Range(input_data.rows) -> PredRows] :
                model' = [fitted |-> TRUE, f |-> f]
          /\ Return("train_model")
    /\ UNCHANGED <<records, inputFile, readable, writable, original_coordinates,
                   view1, view2, view3, perm, input_data, output_data,
                   reconstructed_views, plot, save_arg, outFile>>

\* model.predict(scaler.transform(view)): one answer per row, in row order.
Predict(m, view) == Array2([i \in 1..Len(view.rows) |-> m.f[view.rows[i]]])

\* reconstruct_structure(model, scaler, views): one reconstruction per view, in
\* the order of the views.
reconstruct_structure(m, views) == [v \in 1..Len(views) |-> Predict(m, views[v])]

\* reconstructed_views = reconstruct_structure(model, scaler, [view1, view2, view3])
ReconstructStructure ==
    /\ pc = "reconstruct_structure"
    /\ calls' = Append(calls, "reconstruct_structure")
    /\ reconstructed_views' = reconstruct_structure(model, <<view1, view2, view3>>)
    /\ Return("reconstruct_structure")
    /\ UNCHANGED <<records, inputFile, readable, writable,
                   original_coordinates, view1, view2, view3, perm, input_data,
                   output_data, model, plot, save_arg, outFile>>

\* color_variable = np.arange(len(mean)); visualize_structure(mean, color_variable)
VisualizeStructure ==
    /\ pc = "visualize_structure"
    /\ calls' = Append(calls, "visualize_structure")
    /\ LET mean == np_mean(reconstructed_views)
       IN  plot' = [shown |-> TRUE,
                    points |-> mean.rows,
                    color |-> [i \in 1..Len(mean.rows) |-> i - 1]]
    /\ Return("visualize_structure")
    /\ UNCHANGED <<records, inputFile, readable, writable,
                   original_coordinates, view1, view2, view3, perm, input_data,
                   output_data, model, reconstructed_views, save_arg, outFile>>

\* save_pdb(output_pdb_path, np.mean(reconstructed_views, axis=0))
SavePdb ==
    /\ pc = "save_pdb"
    /\ calls' = Append(calls, "save_pdb")
    /\ save_arg' = np_mean(reconstructed_views)
    /\ IF ~writable
       THEN Raise("IOError") /\ UNCHANGED outFile
       ELSE /\ outFile' = [exists |-> TRUE, data |-> save_pdb(save_arg')]
            /\ Return("save_pdb")
    /\ UNCHANGED <<records, inputFile, readable, writable, original_coordinates,
                   view1, view2, view3, perm, input_data, output_data, model,
                   reconstructed_views, plot>>

Next ==
    \/ ParsePdb
    \/ GenerateViews
    \/ Stack
    \/ TrainModel
    \/ ReconstructStructure
    \/ VisualizeStructure
    \/ SavePdb

Spec == Init /\ [][Next]_vars

(* ------------------------------------------------------------------ *)
(* The writer and the parser on any coordinate set                     *)
(* ------------------------------------------------------------------ *)

\* save_pdb is handed any coordinate set of at most MaxRows rows.
InitRoundTrip ==
    /\ save_arg \in {Array2(rows) : rows \in SeqsUpTo(SampleRows, MaxRows)}
    /\ pc = "rt_save"
    /\ records = <<>>
    /\ inputFile = ""
    /\ readable = TRUE
    /\ writable = TRUE
    /\ error = "none"
    /\ calls = <<>>
    /\ done = <<>>
    /\ original_coordinates = EmptyArray
    /\ view1 = EmptyArray
    /\ view2 = EmptyArray
    /\ view3 = EmptyArray
    /\ perm = <<>>
    /\ input_data = EmptyArray
    /\ output_data = EmptyArray
    /\ model = NoModel
    /\ reconstructed_views = <<>>
    /\ plot = NoPlot
    /\ outFile = NoFile

\* save_pdb(path, save_arg)
WriteBack ==
    /\ pc = "rt_save"
    /\ calls' = Append(calls, "save_pdb")
    /\ outFile' = [exists |-> TRUE, data |-> save_pdb(save_arg)]
    /\ pc' = "rt_parse"
    /\ done' = Append(done, "save_pdb")
    /\ UNCHANGED <<error, records, inputFile, readable, writable,
                   original_coordinates, view1, view2, view3, perm, input_data,
                   output_data, model, reconstructed_views, plot, save_arg>>

\* parse_pdb(path) on the file save_pdb wrote
ReadBack ==
    /\ pc = "rt_parse"
    /\ calls' = Append(calls, "parse_pdb")
    /\ LET r == parse_pdb(outFile.data)
       IN  IF r.ok
           THEN /\ original_coordinates' = r.array
                /\ pc' = "rt_done"
                /\ done' = Append(done, "parse_pdb")
                /\ UNCHANGED error
           ELSE Raise("ValueError") /\ UNCHANGED original_coordinates
    /\ UNCHANGED <<records, inputFile, readable, writable, view1, view2, view3,
                   perm, input_data, output_data, model, reconstructed_views,
                   plot, save_arg, outFile>>

NextRoundTrip == WriteBack \/ ReadBack

SpecRoundTrip == InitRoundTrip /\ [][NextRoundTrip]_vars

(* ------------------------------------------------------------------ *)
(* Properties                                                          *)
(* ------------------------------------------------------------------ *)

Ran(stage) == stage \in Range(done)

IsPrefix(s, t) == Len(s) <= Len(t) /\ \A i \in 1..Len(s) : s[i] = t[i]

\* The number of rows of rows equal to r.
Count(r, rows) == Cardinality({i \in 1..Len(rows) : rows[i] = r})

IsAtomRecord(rec) == rec.kind = "atom"

\* The lines that start with 'ATOM' and whose columns do not hold three numbers.
IsMalformedRecord(rec) == rec.kind \in {"badnum", "short"}

\* Every line of the input that starts with 'ATOM' carries three numbers.
WellFormedInput == \A i \in 1..Len(records) : ~IsMalformedRecord(records[i])

\* The coordinates of the atom records of the input, in file order.
AtomRows ==
    LET atoms == SelectSeq(records, IsAtomRecord)
    IN  [i \in 1..Len(atoms) |-> atoms[i].row]

\* v rounded to 3 decimal places, in 1/Scale units.
Rounded3(v) ==
    IF v < 0 THEN -(Round3(-v) * (Scale \div Milli)) ELSE Round3(v) * (Scale \div Milli)

\* C1: on a readable input whose lines starting with 'ATOM' all carry three
\* numbers, parse_pdb does not fail and returns exactly one row per line
\* starting with 'ATOM', in file order (the coordinates of those lines); the
\* other lines contribute no row.
C1_ParseOneRowPerAtomLine ==
    (calls # <<>> /\ readable /\ WellFormedInput)
        => /\ Ran("parse_pdb")
           /\ Len(original_coordinates.rows) = Cardinality({i \in 1..Len(records) : IsAtomRecord(records[i])})
           /\ original_coordinates.rows = AtomRows

\* A two-line input of one atom record and one record of another type has been parsed.
C1_Witness ==
    /\ Ran("parse_pdb")
    /\ Len(records) = 2
    /\ Len(original_coordinates.rows) = 1
    /\ \E i \in 1..2 : records[i].kind \in {"hetatm", "indented", "remark"}

\* C2: for an input with zero atom records parse_pdb returns an empty
\* coordinate set without error, and generate_views applied to it does not
\* fail and returns three views of length 0.
C2_EmptyInputGivesEmptyViews ==
    (readable /\ WellFormedInput /\ AtomRows = <<>>)
        => /\ calls # <<>> => (Ran("parse_pdb") /\ Len(original_coordinates.rows) = 0)
           /\ "generate_views" \in Range(calls)
                => /\ Ran("generate_views")
                   /\ Len(view1.rows) = 0 /\ Len(view2.rows) = 0 /\ Len(view3.rows) = 0

\* C3: the flip view keeps the row order and reverses the three components of
\* every row, so a row with x = z is unchanged and the flip of the flip view is
\* the original again.
C3_FlipInvolution ==
    Ran("generate_views")
        => LET o == original_coordinates.rows
               f == view3.rows
           IN  /\ Len(f) = Len(o)
               /\ \A i \in 1..Len(o) :
                     /\ f[i] = <<o[i][3], o[i][2], o[i][1]>>
                     /\ o[i][1] = o[i][3] => f[i] = o[i]
               /\ np_flip(view3, 1).ok
               /\ np_flip(view3, 1).array.rows = o

\* The views of two atoms, one with x = z and one with x # z, have been made.
C3_Witness ==
    /\ Ran("generate_views")
    /\ Len(original_coordinates.rows) = 2
    /\ \E i, j \in 1..2 :
          /\ original_coordinates.rows[i][1] = original_coordinates.rows[i][3]
          /\ original_coordinates.rows[j][1] # original_coordinates.rows[j][3]
          /\ view3.rows[j] # original_coordinates.rows[j]

\* C4: whatever the shuffle draws, the permutation view has the length of the
\* original and the same rows with the same multiplicities, and the original
\* (view1) still holds the atoms in file order.
C4_PermutationKeepsRows ==
    Ran("generate_views")
        => LET o == original_coordinates.rows
           IN  /\ Len(view2.rows) = Len(o)
               /\ \A r \in Range(o) \cup Range(view2.rows) : Count(r, view2.rows) = Count(r, o)
               /\ view1 = original_coordinates
               /\ o = AtomRows

\* The shuffle has changed the order of the rows.
C4_Witness ==
    /\ Ran("generate_views")
    /\ Len(view2.rows) = 2
    /\ view2.rows # original_coordinates.rows

\* C5: the stacked input has 3N rows, the views in the order identity,
\* permutation, flip; output_data has 3N rows, and its rows 0..N-1, N..2N-1
\* and 2N..3N-1 are the N original rows in original order.
C5_StackedShapes ==
    Ran("stack")
        => LET o == original_coordinates.rows
               N == Len(original_coordinates.rows)
           IN  /\ Len(input_data.rows) = 3 * N
               /\ Len(output_data.rows) = 3 * N
               /\ \A i \in 1..N :
                     /\ input_data.rows[i] = view1.rows[i]
                     /\ input_data.rows[N + i] = view2.rows[i]
                     /\ input_data.rows[2 * N + i] = view3.rows[i]
                     /\ output_data.rows[i] = o[i]
                     /\ output_data.rows[N + i] = o[i]
                     /\ output_data.rows[2 * N + i] = o[i]

\* The data of two different atoms have been stacked.
C5_Witness ==
    /\ Ran("stack")
    /\ Len(original_coordinates.rows) = 2
    /\ original_coordinates.rows[1] # original_coordinates.rows[2]

\* C6: save_pdb writes one line per row; line i starts with 'ATOM', carries
\* the atom number i and ends with 'C'; for no rows the file exists and is empty.
C6_OneLinePerRow ==
    outFile.exists
        => LET out == Lines[outFile.data]
               N == Len(save_arg.rows)
           IN  /\ Len(out) = N
               /\ N = 0 => outFile.data = ""
               /\ \A i \in 1..N :
                     /\ Slice(out[i], 0, 4) = "ATOM"
                     /\ RStrip[LStrip[Slice(out[i], 4, 11)]] = ToString(i)
                     /\ Slice(out[i], Len(out[i]) - 2, Len(out[i])) = "C\n"

\* A file of two rows has been written.
C6_Witness ==
    /\ outFile.exists
    /\ Len(save_arg.rows) = 2
    /\ Len(Lines[outFile.data]) = 2

\* C7: a failure ends the run: once a statement of main has failed nothing
\* more runs, the failing function was called once and did not complete, and
\* after a failure of parse_pdb no model is fitted and no file is written.
C7_FailureIsFatal ==
    error # "none"
        => /\ ~ENABLED Next
           /\ pc = "failed"
           /\ \A i, j \in 1..Len(calls) : calls[i] = calls[j] => i = j
           /\ ~Ran(calls[Len(calls)])
           /\ calls = <<"parse_pdb">> => (~model.fitted /\ ~outFile.exists /\ ~plot.shown)
           /\ error = "ValueError" => calls = <<"parse_pdb">>

\* parse_pdb has met a malformed number.
C7_Witness ==
    /\ error = "ValueError"
    /\ calls = <<"parse_pdb">>
    /\ ~WellFormedInput

\* The components of a run, in the order of the claim.
Components ==
    <<"parse_pdb", "generate_views", "train_model", "reconstruct_structure",
      "visualize_structure", "save_pdb">>

\* C8: the components are called in the order parser, view synthesizer,
\* trainer, reconstructor, visualizer, writer, each at most once and each after
\* its predecessor has returned; a finished run has called all six; the file is
\* written only after the model is fitted and three views are reconstructed.
C8_StageOrder ==
    /\ IsPrefix(calls, Components)
    /\ \A i \in 2..Len(calls) : Ran(calls[i - 1])
    /\ pc = "done" => (calls = Components /\ error = "none" /\ outFile.exists)
    /\ outFile.exists => (model.fitted /\ Len(reconstructed_views) = 3 /\ Ran("reconstruct_structure"))

\* A run has finished.
C8_Witness ==
    /\ pc = "done"
    /\ outFile.exists
    /\ plot.shown

\* C9: the target paired with row i of a view is the original coordinate of
\* the atom that row i of the view shows: atom i for the identity and the flip
\* view, atom perm[i] for the permutation view.
C9_TargetsFollowAtoms ==
    Ran("stack")
        => LET o == original_coordinates.rows
               N == Len(original_coordinates.rows)
           IN  \A i \in 1..N :
                  /\ view1.rows[i] = o[i] /\ output_data.rows[i] = o[i]
                  /\ view2.rows[i] = o[perm[i]] /\ output_data.rows[N + i] = o[perm[i]]
                  /\ view3.rows[i] = Reverse(o[i]) /\ output_data.rows[2 * N + i] = o[i]

\* C10: the file save_pdb writes for any coordinate set is read back by
\* parse_pdb without error, with the same number of rows in the same order,
\* each value the written value rounded to 3 decimal places.
C10_RoundTrip ==
    (Ran("save_pdb") /\ pc # "rt_parse")
        => /\ error = "none"
           /\ Len(original_coordinates.rows) = Len(save_arg.rows)
           /\ \A i \in 1..Len(save_arg.rows) : \A k \in 1..3 :
                 original_coordinates.rows[i][k] = Rounded3(save_arg.rows[i][k])

====
